---- MODULE Spec2Model ----
(***************************************************************************)
(* Model of harmonai_tools/inference/sampling.py:                          *)
(*   get_bmask  - per-step binary mask from a soft mask                    *)
(*   sample_k   - mode selection, callback composition, solver dispatch    *)
(*   sample     - the DDIM (v-diffusion) loop                              *)
(* Tensors are functions over positions 1..NPos.  Soft-mask values are     *)
(* rationals k/MaskDen, kept as their numerators k.  The external solvers  *)
(* and the denoising model are opaque: their numeric outputs are drawn     *)
(* from small sets.                                                        *)
(***************************************************************************)
EXTENDS Integers, Sequences, FiniteSets, TLC

\* ---------------------------------------------------------------- bounds
NPos == 2
MaskDen == 2
MaxSteps == 3

Pos == 1..NPos

\* None for an optional tensor argument / an absent return value
None == << >>

\* ---------------------------------------------------------------- tensors
Add(a, b) == [p \in DOMAIN a |-> a[p] + b[p]]

Scale(a, s) == [p \in DOMAIN a |-> a[p] * s]

\* a*m + b*(1-m), elementwise (sampling.py lines 107 and 122)
Mix(a, b, m) == [p \in DOMAIN b |-> a[p] * m[p] + b[p] * (1 - m[p])]

\* ---------------------------------------------------------------- get_bmask
\* strength falling with the step index: 1 - i/steps
strength_falling(i, n) == <<n - i, n>>

\* strength without the +1: i/steps
strength_from_zero(i, n) == <<i, n>>

\* strength = (i+1)/(steps), as the pair <<numerator, denominator>>
strength(i, n) == <<i + 1, n>>

\* the comparison turned round: mask >= strength
MaskGeq(k, s) == k * s[2] >= s[1] * MaskDen

\* mask value k/MaskDen <= num/den
MaskLeq(k, s) == k * s[2] <= s[1] * MaskDen

get_bmask(i, n, m) ==
    [p \in DOMAIN m |-> IF MaskLeq(m[p], strength(i, n)) THEN 1 ELSE 0]

\* ---------------------------------------------------------------- inputs
\* masks given to get_bmask alone: every value k/MaskDen with k in
\* 0..MaskDen+1 (one value above 1)
MaskSet == [Pos -> 0..(MaskDen + 1)]

\* soft masks given to sample_k: values in [0,1]
SoftMaskSet == [Pos -> 0..MaskDen]

AudioSet == {[p \in Pos |-> 3 * p], [p \in Pos |-> 0]}

NoiseSet == {[p \in Pos |-> p + 1]}

RandSet == {[p \in Pos |-> 1], [p \in Pos |-> 0 - p]}

CodeSamplerTypes ==
    {"k-heun", "k-lms", "k-dpmpp-2s-ancestral", "k-dpm-2", "k-dpm-fast",
     "k-dpm-adaptive", "dpmpp-2m-sde"}

SpecSamplerTypes ==
    {"heun", "lms", "dpmpp-2s-ancestral", "dpm-2", "dpm-fast",
     "dpm-adaptive", "dpmpp-2m-sde"}

SamplerTypes == CodeSamplerTypes \cup SpecSamplerTypes \cup {"euler"}

\* K.sampling.get_sigmas_polyexponential: a decreasing positive schedule of
\* n noise levels followed by a final 0
get_sigmas(n) == [k \in 0..n |-> IF k = n THEN 0 ELSE n - k]

VARIABLES
    pc,               \* position of the running call
    steps,            \* argument steps
    mask,             \* argument mask (None or a soft mask)
    init_audio,       \* argument init_audio (None or a tensor)
    noise,            \* argument noise
    sampler_type,     \* argument sampler_type
    callback,         \* argument callback ("None" or "callback")
    heap,             \* tensor objects by name
    wrapped_callback, \* hooks handed to the solver, in invocation order
    hook_built,       \* inpainting_callback has been defined
    invoked,          \* external algorithms invoked: <<name, parameter shape>>
    i,                \* step index of the running loop
    calls,            \* hook invocations so far
    read_x,           \* the buffer value the solver read after its last callback
    result,           \* the value returned to the caller
    bmask,            \* last binary mask computed by get_bmask
    eta,              \* argument eta of sample
    x,                \* working buffer of sample (a term)
    pred,             \* pred of sample (a term)
    evals             \* model evaluations of sample: <<term v, timestep>>

vars == <<pc, steps, mask, init_audio, noise, sampler_type, callback, heap,
          wrapped_callback, hook_built, invoked, i, calls, read_x, result,
          bmask, eta, x, pred, evals>>

kvars == <<heap, wrapped_callback, hook_built, invoked, calls, read_x>>
kargs == <<init_audio, noise, sampler_type, callback>>
dvars == <<eta, x, pred, evals>>

NoResult == [kind |-> "pending", from |-> "", val |-> None]

EmptyHeap == [o \in {"init_audio", "mask", "x"} |-> None]

\* ---------------------------------------------------------------- sample_k
\* two branches calling the same algorithm
Dispatch_samebranch(st) ==
    IF st = "k-heun" THEN <<"sample_heun", "sigmas">>
    ELSE IF st = "k-lms" THEN <<"sample_lms", "sigmas">>
    ELSE IF st = "k-dpmpp-2s-ancestral" THEN <<"sample_dpmpp_2s_ancestral", "sigmas">>
    ELSE IF st = "k-dpm-2" THEN <<"sample_dpm_2", "sigmas">>
    ELSE IF st = "k-dpm-fast" THEN <<"sample_dpm_fast", "sigma_min,sigma_max,steps">>
    ELSE IF st = "k-dpm-adaptive" THEN <<"sample_dpm_fast", "sigma_min,sigma_max,steps">>
    ELSE IF st = "dpmpp-2m-sde" THEN <<"sample_dpmpp_2m_sde", "sigmas">>
    ELSE << >>

\* a final else that falls back to the default solver
Dispatch_fallback(st) ==
    IF st = "k-heun" THEN <<"sample_heun", "sigmas">>
    ELSE IF st = "k-lms" THEN <<"sample_lms", "sigmas">>
    ELSE IF st = "k-dpmpp-2s-ancestral" THEN <<"sample_dpmpp_2s_ancestral", "sigmas">>
    ELSE IF st = "k-dpm-2" THEN <<"sample_dpm_2", "sigmas">>
    ELSE IF st = "k-dpm-fast" THEN <<"sample_dpm_fast", "sigma_min,sigma_max,steps">>
    ELSE IF st = "k-dpm-adaptive" THEN <<"sample_dpm_adaptive", "sigma_min,sigma_max,rtol,atol">>
    ELSE <<"sample_dpmpp_2m_sde", "sigmas">>

\* the if/elif chain of the dispatch: <<algorithm, parameter shape>>, or
\* <<>> when no branch matches
Dispatch(st) ==
    IF st = "k-heun" THEN <<"sample_heun", "sigmas">>
    ELSE IF st = "k-lms" THEN <<"sample_lms", "sigmas">>
    ELSE IF st = "k-dpmpp-2s-ancestral" THEN <<"sample_dpmpp_2s_ancestral", "sigmas">>
    ELSE IF st = "k-dpm-2" THEN <<"sample_dpm_2", "sigmas">>
    ELSE IF st = "k-dpm-fast" THEN <<"sample_dpm_fast", "sigma_min,sigma_max,steps">>
    ELSE IF st = "k-dpm-adaptive" THEN <<"sample_dpm_adaptive", "sigma_min,sigma_max,rtol,atol">>
    ELSE IF st = "dpmpp-2m-sde" THEN <<"sample_dpmpp_2m_sde", "sigmas">>
    ELSE << >>

\* the first branch taken whenever a reference is present
InitialX_nomask(ia, m, n, nz) ==
    IF ia # None THEN Add(ia, nz) ELSE nz

\* the initial latent chosen by the mode selection
InitialX(ia, m, n, nz) ==
    IF m = None /\ ia # None THEN Add(ia, nz)
    ELSE IF m # None /\ ia # None
         THEN Mix(Add(ia, nz), nz, get_bmask(0, n, m))
         ELSE nz

\* the caller's callback ahead of the remix
WrappedCallback_swapped(ia, m, cb) ==
    IF m # None /\ ia # None /\ cb # "None"
    THEN <<"callback", "inpainting_callback">>
    ELSE IF cb # "None" THEN <<"callback">> ELSE << >>

\* the hooks handed on as callback=wrapped_callback
WrappedCallback(ia, m, cb) ==
    IF m # None /\ ia # None /\ cb # "None"
    THEN <<"inpainting_callback", "callback">>
    ELSE IF cb # "None" THEN <<"callback">> ELSE << >>

InitK ==
    /\ pc = "sample_k"
    /\ steps \in 1..MaxSteps
    /\ mask \in SoftMaskSet \cup {None}
    /\ init_audio \in AudioSet \cup {None}
    /\ noise \in NoiseSet
    /\ sampler_type \in SamplerTypes
    /\ callback \in {"None", "callback"}
    /\ heap = [EmptyHeap EXCEPT !["init_audio"] = init_audio, !["mask"] = mask]
    /\ wrapped_callback = << >>
    /\ hook_built = FALSE
    /\ invoked = << >>
    /\ i = 0
    /\ calls = << >>
    /\ read_x = None
    /\ result = NoResult
    /\ bmask = None
    /\ eta = 0
    /\ x = None
    /\ pred = None
    /\ evals = << >>

sample_k ==
    /\ pc = "sample_k"
    /\ LET sigmas == get_sigmas(steps)
           nz == Scale(noise, sigmas[0])
           d == Dispatch(sampler_type)
       IN /\ heap' = [heap EXCEPT !["x"] = InitialX(init_audio, mask, steps, nz)]
          /\ wrapped_callback' = WrappedCallback(init_audio, mask, callback)
          /\ hook_built' = (mask # None /\ init_audio # None)
          /\ bmask' = IF mask # None /\ init_audio # None
                      THEN get_bmask(0, steps, mask) ELSE bmask
          /\ IF d = << >>
             THEN /\ pc' = "returned"
                  /\ result' = [kind |-> "None", from |-> "", val |-> None]
                  /\ invoked' = invoked
             ELSE /\ pc' = "solving"
                  /\ result' = result
                  /\ invoked' = Append(invoked, d)
    /\ UNCHANGED <<steps, mask, kargs, i, calls, read_x, dvars>>

\* x = new_x: the local name rebound, the buffer left as it was
inpainting_callback_rebind(h, args, r) ==
    LET input_noised == Add(h["init_audio"], Scale(r, args.sigma))
        bm == get_bmask(args.i, steps, h["mask"])
        new_x == Mix(input_noised, h[args.x], bm)
    IN h

\* inpainting_callback(args): remix the buffer args["x"] in place
inpainting_callback(h, args, r) ==
    LET input_noised == Add(h["init_audio"], Scale(r, args.sigma))
        bm == get_bmask(args.i, steps, h["mask"])
        new_x == Mix(input_noised, h[args.x], bm)
    IN [h EXCEPT ![args.x] = new_x]

\* one hook invocation: the heap it leaves and the record of the invocation
CallHook(name, st, args, r) ==
    LET h2 == IF name = "inpainting_callback"
              THEN inpainting_callback(st.heap, args, r)
              ELSE st.heap
    IN [heap |-> h2,
        calls |-> Append(st.calls,
                    [hook |-> name, i |-> args.i, x |-> args.x,
                     sigma |-> args.sigma, r |-> r,
                     saw |-> st.heap[args.x], left |-> h2[args.x]])]

\* lambda args: (inpainting_callback(args), callback(args)): left to right
RECURSIVE RunHooks(_, _, _, _, _)
RunHooks(hooks, k, st, args, r) ==
    IF k > Len(hooks) THEN st
    ELSE RunHooks(hooks, k + 1, CallHook(hooks[k], st, args, r), args, r)

\* one step of the external solver: callback({'x': x, 'i': i, 'sigma':
\* sigmas[i], ...}) on its own buffer, then its update of x from that buffer
SolverStep ==
    /\ pc = "solving"
    /\ i < steps
    /\ \E r \in RandSet, d \in {0, 1} :
         LET args == [i |-> i, x |-> "x", sigma |-> get_sigmas(steps)[i]]
             st == RunHooks(wrapped_callback, 1,
                            [heap |-> heap, calls |-> calls], args, r)
             rd == st.heap["x"]
         IN /\ read_x' = rd
            /\ heap' = [st.heap EXCEPT !["x"] = [p \in DOMAIN rd |-> rd[p] + d]]
            /\ calls' = st.calls
    /\ i' = i + 1
    /\ UNCHANGED <<pc, steps, mask, kargs, wrapped_callback, hook_built,
                   invoked, result, bmask, dvars>>

\* the solver returns its final x, which sample_k returns
SolverReturn ==
    /\ pc = "solving"
    /\ i = steps
    /\ pc' = "returned"
    /\ result' = [kind |-> "value", from |-> invoked[1][1], val |-> heap["x"]]
    /\ UNCHANGED <<steps, mask, kargs, kvars, i, bmask, dvars>>

NextK == sample_k \/ SolverStep \/ SolverReturn

SpecK == InitK /\ [][NextK]_vars

\* ---------------------------------------------------------------- get_bmask alone
InitM ==
    /\ pc = "get_bmask"
    /\ steps \in 1..MaxSteps
    /\ mask \in MaskSet
    /\ i = 0
    /\ bmask = None
    /\ calls = << >>
    /\ init_audio = None
    /\ noise = None
    /\ sampler_type = ""
    /\ callback = "None"
    /\ heap = EmptyHeap
    /\ wrapped_callback = << >>
    /\ hook_built = FALSE
    /\ invoked = << >>
    /\ read_x = None
    /\ result = NoResult
    /\ eta = 0
    /\ x = None
    /\ pred = None
    /\ evals = << >>

\* bmask = get_bmask(i, steps, mask), for successive step indices i;
\* calls keeps the masks computed so far (entry i+1 is the mask of step i)
get_bmask_call ==
    /\ pc = "get_bmask"
    /\ i <= MaxSteps
    /\ bmask' = get_bmask(i, steps, mask)
    /\ calls' = Append(calls, bmask')
    /\ i' = i + 1
    /\ UNCHANGED <<pc, steps, mask, kargs, heap, wrapped_callback, hook_built,
                   invoked, read_x, result, dvars>>

NextM == get_bmask_call

SpecM == InitM /\ [][NextM]_vars
\* ---------------------------------------------------------------- sample (DDIM)
\* Values of the DDIM loop are terms <<operation, operands...>>; a timestep
\* is the rational <<numerator, denominator>>.

\* torch.linspace(a, b, n): n evenly spaced points from a to b inclusive
linspace(a, b, n) == [k \in 0..(n - 1) |-> <<a * (n - 1) + k * (b - a), n - 1>>]

\* f[:-1]
DropLast(f, n) == [k \in 0..(n - 2) |-> f[k]]

\* t = torch.linspace(1, 0, steps + 1)[:-1]
Timesteps(n) == DropLast(linspace(1, 0, n + 1), n + 1)

get_alphas_sigmas(t) == <<<<"cos", t>>, <<"sin", t>>>>

\* pred = x * alphas[i] - v * sigmas[i]
PredOf(xv, v, t) == <<"pred", xv, v, get_alphas_sigmas(t)>>

\* eps = x * sigmas[i] + v * alphas[i]
EpsOf(xv, v, t) == <<"eps", xv, v, get_alphas_sigmas(t)>>

\* x = pred * alphas[i + 1] + eps * adjusted_sigma, then, if eta, the fresh
\* noise scaled by ddim_sigma
Recombine(p, e, t, tn, et, r) ==
    IF et # 0
    THEN <<"recombine+noise", p, e, get_alphas_sigmas(t), get_alphas_sigmas(tn), et, r>>
    ELSE <<"recombine", p, e, get_alphas_sigmas(t), get_alphas_sigmas(tn), et>>

\* range(steps - 1)
LoopStopsEarly(k, n) == k < n - 1

\* the loop goes on while i < steps
LoopContinues(k, n) == k < n

\* the noisy image for the next timestep is computed when i < steps - 1
NotLastTimestep(k, n) == k < n - 1

ModelOutputs == {"v0", "v1"}

FreshNoise == {"n0", "n1"}

InitD ==
    /\ pc = "sample"
    /\ steps \in 0..MaxSteps
    /\ eta \in {0, 1}
    /\ x = <<"x0">>
    /\ pred = None
    /\ evals = << >>
    /\ i = 0
    /\ result = NoResult
    /\ mask = None
    /\ bmask = None
    /\ calls = << >>
    /\ init_audio = None
    /\ noise = None
    /\ sampler_type = ""
    /\ callback = "None"
    /\ heap = EmptyHeap
    /\ wrapped_callback = << >>
    /\ hook_built = FALSE
    /\ invoked = << >>
    /\ read_x = None

\* one iteration of the sampling loop
sample_step ==
    /\ pc = "sample"
    /\ LoopContinues(i, steps)
    /\ \E vo \in ModelOutputs, r \in FreshNoise :
         LET t == Timesteps(steps)
             v == <<"model", x, t[i], vo>>
             pr == PredOf(x, v, t[i])
             ep == EpsOf(x, v, t[i])
         IN /\ pred' = pr
            /\ x' = IF NotLastTimestep(i, steps)
                    THEN Recombine(pr, ep, t[i], t[i + 1], eta, r)
                    ELSE x
            /\ evals' = Append(evals,
                          [i |-> i, t |-> t[i], x |-> x, pred |-> pr,
                           recombined |-> x' # x])
    /\ i' = i + 1
    /\ UNCHANGED <<pc, steps, eta, mask, kargs, kvars, result, bmask>>

\* return pred (unbound when the loop body never ran)
sample_return ==
    /\ pc = "sample"
    /\ ~LoopContinues(i, steps)
    /\ pc' = "returned"
    /\ result' = IF pred = None
                 THEN [kind |-> "raise", from |-> "UnboundLocalError", val |-> None]
                 ELSE [kind |-> "value", from |-> "sample", val |-> pred]
    /\ UNCHANGED <<steps, eta, mask, kargs, kvars, i, bmask, x, pred, evals>>

NextD == sample_step \/ sample_return

SpecD == InitD /\ [][NextD]_vars

\* the loop is sequential code: it keeps running until it returns
FairSpecD == SpecD /\ WF_vars(NextD)
\* ================================================================ properties

Inpainting == init_audio # None /\ mask # None

Started == pc \in {"solving", "returned"}

InpaintingCalls == {c \in DOMAIN calls : calls[c].hook = "inpainting_callback"}

\* the noise scaled by sigmas[0]
ScaledNoise == [p \in Pos |-> noise[p] * get_sigmas(steps)[0]]

\* the soft mask at p is at most (k+1)/steps
KeptAt(p, k) == mask[p] * steps <= (k + 1) * MaskDen

\* C1: in inpainting mode the remix hook is registered with the solver and
\* has run on every solver step taken so far, with or without a caller's
\* callback.
C1_HookOnEveryStep ==
    (Inpainting /\ Started) =>
        /\ \E h \in DOMAIN wrapped_callback :
               wrapped_callback[h] = "inpainting_callback"
        /\ \A k \in 0..(i - 1) : \E c \in InpaintingCalls : calls[c].i = k

\* C2: in inpainting mode with a caller's callback, every solver step calls
\* the remix first and the caller's callback second, once each, on the same
\* step record, and the caller's callback sees the buffer the remix left.
C2_RemixThenCallback ==
    (Inpainting /\ callback = "callback" /\ Started) =>
        /\ Len(calls) = 2 * i
        /\ \A k \in 0..(i - 1) :
             LET a == calls[2 * k + 1]
                 b == calls[2 * k + 2]
             IN /\ a.hook = "inpainting_callback"
                /\ b.hook = "callback"
                /\ a.i = k /\ b.i = k
                /\ a.x = b.x /\ a.sigma = b.sigma
                /\ b.saw = a.left

C2_Witness ==
    /\ Inpainting /\ callback = "callback" /\ pc = "returned"
    /\ i >= 2
    /\ \E c \in InpaintingCalls : calls[c].left # calls[c].saw

\* the stepping algorithm a selector names
AlgorithmNamed(st) ==
    CASE st \in {"heun", "k-heun"} -> "sample_heun"
      [] st \in {"lms", "k-lms"} -> "sample_lms"
      [] st \in {"dpmpp-2s-ancestral", "k-dpmpp-2s-ancestral"} -> "sample_dpmpp_2s_ancestral"
      [] st \in {"dpm-2", "k-dpm-2"} -> "sample_dpm_2"
      [] st \in {"dpm-fast", "k-dpm-fast"} -> "sample_dpm_fast"
      [] st \in {"dpm-adaptive", "k-dpm-adaptive"} -> "sample_dpm_adaptive"
      [] st \in {"dpmpp-2m-sde"} -> "sample_dpmpp_2m_sde"
      [] OTHER -> "none"

\* exactly the algorithm named by sampler_type is invoked, once, and its
\* result is what sample_k returns
InvokesNamedAlgorithm ==
    /\ Started =>
         /\ Len(invoked) = 1
         /\ invoked[1][1] = AlgorithmNamed(sampler_type)
    /\ pc = "returned" =>
         /\ result.kind = "value"
         /\ result.from = AlgorithmNamed(sampler_type)
         /\ result.val = heap["x"]

\* C3 (as stated): for each selector in {heun, lms, dpmpp-2s-ancestral, dpm-2,
\* dpm-fast, dpm-adaptive, dpmpp-2m-sde} sample_k invokes exactly the named
\* stepping algorithm and returns its result.
C3_SpecNamesDispatch ==
    sampler_type \in SpecSamplerTypes => InvokesNamedAlgorithm

\* C3 (amended): for each selector in {k-heun, k-lms, k-dpmpp-2s-ancestral,
\* k-dpm-2, k-dpm-fast, k-dpm-adaptive, dpmpp-2m-sde} sample_k invokes exactly
\* the named stepping algorithm and returns its result.
C3_CodeNamesDispatch ==
    sampler_type \in CodeSamplerTypes => InvokesNamedAlgorithm

C3_Witness ==
    /\ sampler_type = "k-dpm-fast"
    /\ pc = "returned"
    /\ result.kind = "value"
    /\ invoked = <<<<"sample_dpm_fast", "sigma_min,sigma_max,steps">>>>

\* C4: with a selector that matches no dispatch branch, sample_k invokes no
\* solver, raises nothing and returns None, whatever the operating mode.
C4_UnmatchedReturnsNone ==
    (sampler_type \notin CodeSamplerTypes /\ pc # "sample_k") =>
        /\ pc = "returned"
        /\ invoked = << >>
        /\ calls = << >>
        /\ result.kind = "None"
        /\ result.val = None

C4_Witness ==
    /\ sampler_type = "euler"
    /\ Inpainting /\ callback = "callback"
    /\ pc = "returned"
    /\ result.kind = "None"

ZeroMask == mask # None /\ \A p \in Pos : mask[p] = 0

\* C5 (as stated): in inpainting mode with an all-zero soft mask the binary
\* mask of every step 0..steps-1 is all-zero, the step-0 mask forces no
\* position, and the remix hook never overwrites a position of the buffer.
C5_ZeroMaskNeverForces ==
    (Inpainting /\ ZeroMask /\ Started) =>
        /\ \A p \in Pos : bmask[p] = 0
        /\ \A k \in 0..(steps - 1), p \in Pos : ~KeptAt(p, k)
        /\ \A c \in InpaintingCalls : calls[c].left = calls[c].saw

\* C5 (amended): in inpainting mode with an all-zero soft mask the binary
\* mask of every step 0..steps-1 is all-one, so the initial state equals
\* reference + scaled noise at every position and every invocation of the
\* remix hook overwrites every position with the freshly noised reference.
C5_ZeroMaskAlwaysForces ==
    (Inpainting /\ ZeroMask /\ pc # "sample_k") =>
        /\ \A p \in Pos : bmask[p] = 1
        /\ \A k \in 0..(steps - 1), p \in Pos : KeptAt(p, k)
        /\ i = 0 => \A p \in Pos : heap["x"][p] = init_audio[p] + ScaledNoise[p]
        /\ \A c \in InpaintingCalls : \A p \in Pos :
             calls[c].left[p] = init_audio[p] + calls[c].r[p] * calls[c].sigma

C5_Witness ==
    /\ Inpainting /\ ZeroMask /\ pc = "returned"
    /\ \E c \in InpaintingCalls :
         /\ calls[c].i = steps - 1
         /\ \A p \in Pos : calls[c].left[p] # calls[c].saw[p]

\* C6: for a fixed soft mask and steps, a position that is 1 in the binary
\* mask of a step is 1 in the binary mask of every later step.
C6_KeepRegionMonotone ==
    \A k1 \in DOMAIN calls, k2 \in DOMAIN calls :
        k1 < k2 => \A p \in Pos : calls[k1][p] = 1 => calls[k2][p] = 1

C6_Witness ==
    /\ pc = "get_bmask"
    /\ Len(calls) >= 3
    /\ \E p \in Pos : calls[1][p] = 0 /\ calls[2][p] = 1 /\ calls[3][p] = 1
    /\ \E p \in Pos : calls[1][p] = 1

\* C7: for steps >= 1 and a soft mask with every value <= 1, the binary mask
\* of the last step, get_bmask(steps-1, steps, mask), is 1 at every position.
C7_LastStepAllOnes ==
    (steps >= 1 /\ Len(calls) >= steps /\ \A p \in Pos : mask[p] <= MaskDen) =>
        \A p \in Pos : calls[steps][p] = 1

C7_Witness ==
    /\ pc = "get_bmask"
    /\ steps >= 2
    /\ Len(calls) >= steps
    /\ \E p \in Pos : mask[p] = MaskDen /\ calls[steps - 1][p] = 0
    /\ \A p \in Pos : mask[p] <= MaskDen /\ calls[steps][p] = 1

\* C8: the initial state and the hooks depend only on which of init_audio
\* and mask are present: neither -> scaled noise; reference only ->
\* reference + scaled noise; both -> (reference+noise)*mask0 +
\* noise*(1-mask0) with the inpainting hook built; mask only -> as neither.
C8_ModeByPresence ==
    (pc # "sample_k" /\ i = 0) =>
        LET userOnly == IF callback = "None" THEN << >> ELSE <<"callback">>
        IN CASE init_audio = None ->
                  /\ heap["x"] = ScaledNoise
                  /\ ~hook_built
                  /\ wrapped_callback = userOnly
             [] init_audio # None /\ mask = None ->
                  /\ \A p \in Pos : heap["x"][p] = init_audio[p] + ScaledNoise[p]
                  /\ DOMAIN heap["x"] = Pos
                  /\ ~hook_built
                  /\ wrapped_callback = userOnly
             [] init_audio # None /\ mask # None ->
                  /\ \A p \in Pos :
                       heap["x"][p] = IF KeptAt(p, 0)
                                      THEN init_audio[p] + ScaledNoise[p]
                                      ELSE ScaledNoise[p]
                  /\ DOMAIN heap["x"] = Pos
                  /\ hook_built

C8_Witness ==
    /\ init_audio = None /\ mask # None /\ callback = "callback"
    /\ pc = "returned" /\ result.kind = "value"
    /\ Len(calls) = steps
    /\ \A c \in DOMAIN calls : calls[c].hook = "callback"

\* C9: an invocation of the inpainting hook at step i writes the solver's own
\* buffer in place, keeping its shape: positions where the step-i binary mask
\* is 0 keep their value, positions where it is 1 take the freshly noised
\* reference; the solver then reads that buffer; the reference and the soft
\* mask are left as they were.
C9_RemixInPlace ==
    /\ \A c \in InpaintingCalls :
         /\ calls[c].x = "x"
         /\ DOMAIN calls[c].left = DOMAIN calls[c].saw
         /\ \A p \in Pos :
              calls[c].left[p] =
                  IF KeptAt(p, calls[c].i)
                  THEN init_audio[p] + calls[c].r[p] * calls[c].sigma
                  ELSE calls[c].saw[p]
    /\ (InpaintingCalls # {}) =>
         /\ read_x = calls[Len(calls)].left
         /\ heap["init_audio"] = init_audio
         /\ heap["mask"] = mask

C9_Witness ==
    \E c \in InpaintingCalls :
        /\ \E p \in Pos : KeptAt(p, calls[c].i) /\ calls[c].left[p] # calls[c].saw[p]
        /\ \E p \in Pos : ~KeptAt(p, calls[c].i)
        /\ read_x = calls[Len(calls)].left

\* C10: for N >= 1 the DDIM loop returns after exactly N model evaluations,
\* at the strictly decreasing timesteps t_i = 1 - i/N (never 0), recombining
\* the buffer on the steps i < N-1 only, and returns the pred of step N-1.
C10_Shape ==
    steps >= 1 =>
        /\ Len(evals) <= steps
        /\ \A k \in DOMAIN evals :
             /\ evals[k].i = k - 1
             /\ evals[k].t[1] * steps = (steps - (k - 1)) * evals[k].t[2]
             /\ evals[k].t[2] > 0 /\ evals[k].t[1] > 0
             /\ k > 1 => evals[k].t[1] * evals[k - 1].t[2]
                           < evals[k - 1].t[1] * evals[k].t[2]
             /\ evals[k].recombined = (k - 1 < steps - 1)
        /\ pc = "returned" =>
             /\ Len(evals) = steps
             /\ result.kind = "value"
             /\ result.val = evals[steps].pred

C10_DDIMTerminates == [](C10_Shape) /\ <>(pc = "returned")

C10_Witness ==
    /\ pc = "returned" /\ steps = MaxSteps /\ eta = 1
    /\ Len(evals) = steps
    /\ result.val = evals[steps].pred
====
